---- MODULE Spec2Model ----
(***************************************************************************)
(* franka_hw::FrankaStateController                                        *)
(* (franka_hw/src/franka_state_controller.cpp).                            *)
(*                                                                         *)
(* The controller runs in the control thread.  update() asks the rate      *)
(* gate trigger_publish_ whether this cycle publishes; if so it copies the *)
(* robot state from the state handle and offers it to four realtime        *)
(* publishers (franka_states, tf, F_ext, joint_states).  Each publisher    *)
(* owns one message buffer msg_, a mutex and a turn flag; a publishing     *)
(* thread per publisher takes the message once the control thread has      *)
(* handed it off with unlockAndPublish().                                  *)
(*                                                                         *)
(* Time is counted in units of 1/TicksPerSec seconds.  Scalars of the      *)
(* robot state are small integers; arrays are functions over 0..n-1.       *)
(***************************************************************************)
EXTENDS Integers, Sequences, FiniteSets, TLC

(* ---------------------------- bounds ----------------------------------- *)

\* the wall clock ros::Time::now() runs over 0..MaxClock
MaxClock == 2

\* at most MaxCycles publish cycles are explored (caps sequence_number_)
MaxCycles == 3

\* where update() is called without end, sequence_number_ is counted
\* modulo SeqModulus
SeqModulus == 2

\* the arrays handed to convertArrayToTf on its own hold up to MaxOnes
\* entries 1 among zeros (and three arrays given by name)
MaxOnes == 2

\* update(time) is called with a time read at most MaxLag clock units
\* before the rate gate reads the clock itself
MaxLag == 1

(* ------------------------- program constants --------------------------- *)

\* clock units per second: 60, so that 30 Hz is a period of 2 units
TicksPerSec == 60

\* the default publish rate, in Hz
DefaultPublishRate == 30

\* the rate at which the control loop calls update(), in Hz
ControlRate == 1000

\* the number of joints (joint_names_.size() must be 7)
NumJoints == 7

\* z of the initial link8 -> EE translation, 0.05 m, in units of 0.01 m
InitEEOffsetZ == 5

Channels == {"franka_states", "tf", "F_ext", "joint_states"}

(* --------------------------- error flags ------------------------------- *)

FlagNames ==
  { "cartesian_motion_generator_acceleration_discontinuity",
    "cartesian_motion_generator_elbow_limit_violation",
    "cartesian_motion_generator_elbow_sign_inconsistent",
    "cartesian_motion_generator_start_elbow_invalid",
    "cartesian_motion_generator_velocity_discontinuity",
    "cartesian_motion_generator_velocity_limits_violation",
    "cartesian_position_limits_violation",
    "cartesian_position_motion_generator_start_pose_invalid",
    "cartesian_reflex",
    "cartesian_velocity_profile_safety_violation",
    "cartesian_velocity_violation",
    "force_controller_desired_force_tolerance_violation",
    "force_control_safety_violation",
    "joint_motion_generator_acceleration_discontinuity",
    "joint_motion_generator_position_limits_violation",
    "joint_motion_generator_velocity_discontinuity",
    "joint_motion_generator_velocity_limits_violation",
    "joint_position_limits_violation",
    "joint_position_motion_generator_start_pose_invalid",
    "joint_reflex",
    "joint_velocity_violation",
    "max_goal_pose_deviation_violation",
    "max_path_pose_deviation_violation",
    "self_collision_avoidance_violation" }

\* a default-constructed franka_hw::Errors message: every flag false
DefaultErrorsMsg == [f \in FlagNames |-> FALSE]

\* the error set with exactly the flags of S set
ErrorsWith(S) == [f \in FlagNames |-> f \in S]

\* errorsToMessage: one assignment per flag; `message` is the local
\* default-constructed message the assignments fill in
errorsToMessage(error) ==
  LET message == DefaultErrorsMsg IN
  [ cartesian_motion_generator_acceleration_discontinuity |->
      error.cartesian_motion_generator_acceleration_discontinuity,
    cartesian_motion_generator_elbow_limit_violation |->
      error.cartesian_motion_generator_elbow_limit_violation,
    cartesian_motion_generator_elbow_sign_inconsistent |->
      error.cartesian_motion_generator_elbow_sign_inconsistent,
    cartesian_motion_generator_start_elbow_invalid |->
      error.cartesian_motion_generator_start_elbow_invalid,
    cartesian_motion_generator_velocity_discontinuity |->
      error.cartesian_motion_generator_velocity_discontinuity,
    cartesian_motion_generator_velocity_limits_violation |->
      error.cartesian_motion_generator_velocity_limits_violation,
    cartesian_position_limits_violation |-> error.cartesian_position_limits_violation,
    cartesian_position_motion_generator_start_pose_invalid |->
      error.cartesian_position_motion_generator_start_pose_invalid,
    cartesian_reflex |-> error.cartesian_reflex,
    cartesian_velocity_profile_safety_violation |->
      error.cartesian_velocity_profile_safety_violation,
    cartesian_velocity_violation |-> error.cartesian_velocity_violation,
    force_controller_desired_force_tolerance_violation |->
      error.force_controller_desired_force_tolerance_violation,
    force_control_safety_violation |-> error.force_control_safety_violation,
    joint_motion_generator_acceleration_discontinuity |->
      error.joint_motion_generator_acceleration_discontinuity,
    joint_motion_generator_position_limits_violation |->
      error.joint_motion_generator_position_limits_violation,
    joint_motion_generator_velocity_discontinuity |->
      error.joint_motion_generator_velocity_discontinuity,
    joint_motion_generator_velocity_limits_violation |->
      message.joint_motion_generator_velocity_limits_violation,
    joint_position_limits_violation |-> error.joint_position_limits_violation,
    joint_position_motion_generator_start_pose_invalid |->
      error.joint_position_motion_generator_start_pose_invalid,
    joint_reflex |-> error.joint_reflex,
    joint_velocity_violation |-> error.joint_velocity_violation,
    max_goal_pose_deviation_violation |-> error.max_goal_pose_deviation_violation,
    max_path_pose_deviation_violation |-> error.max_path_pose_deviation_violation,
    self_collision_avoidance_violation |-> error.self_collision_avoidance_violation ]

(* ------------------------ frame geometry ------------------------------- *)

\* mutant of convertArrayToTf: the translation is read from the last row
\* of a row-major matrix
convertArrayToTf_last_row(transform) ==
  [ rotation |-> << << transform[0], transform[4], transform[8] >>,
                    << transform[1], transform[5], transform[9] >>,
                    << transform[2], transform[6], transform[10] >> >>,
    translation |-> << transform[3], transform[7], transform[11] >> ]

\* mutant of convertArrayToTf: the rotation is read as from a row-major
\* matrix
convertArrayToTf_row_major(transform) ==
  [ rotation |-> << << transform[0], transform[1], transform[2] >>,
                    << transform[4], transform[5], transform[6] >>,
                    << transform[8], transform[9], transform[10] >> >>,
    translation |-> << transform[12], transform[13], transform[14] >> ]

\* tf::Matrix3x3(xx, xy, xz, yx, yy, yz, zx, zy, zz) takes its entries row
\* by row; tf::Vector3(x, y, z)
convertArrayToTf(transform) ==
  [ rotation |-> << << transform[0], transform[4], transform[8] >>,
                    << transform[1], transform[5], transform[9] >>,
                    << transform[2], transform[6], transform[10] >> >>,
    translation |-> << transform[12], transform[13], transform[14] >> ]

\* no tf::Transform yet
NoPose == [ rotation |-> << >>, translation |-> << >> ]

\* tf::Transform(tf::Quaternion(0, 0, 0, 1), translation): no rotation
IdentityRotation == << <<1, 0, 0>>, <<0, 1, 0>>, <<0, 0, 1>> >>

\* tf::StampedTransform(transform, stamp, frame, child) as the
\* geometry_msgs::TransformStamped that transformStampedTFToMsg fills
\* (the rotation is kept as the matrix it encodes)
StampedTransform(transform, stamp, frame_id, child_frame_id) ==
  [ rotation |-> transform.rotation, translation |-> transform.translation,
    stamp |-> stamp, frame_id |-> frame_id, child_frame_id |-> child_frame_id ]

(* --------------------------- robot state ------------------------------- *)

\* a C++ array of n entries base, base+1, ...
Arr(n, base) == [i \in 0..(n - 1) |-> base + i]

\* an array of n entries that all hold v
Fill(n, v) == [i \in 0..(n - 1) |-> v]

\* franka::RobotState, the fields the controller reads
RobotState(k, current, last) ==
  [ cartesian_collision |-> Arr(6, 100 * k + 1),
    cartesian_contact |-> Arr(6, 100 * k + 2),
    K_F_ext_hat_K |-> Arr(6, 100 * k + 10),
    O_F_ext_hat_K |-> Arr(6, 100 * k + 20),
    q |-> Arr(NumJoints, 100 * k + 30),
    dq |-> Arr(NumJoints, 100 * k + 40),
    tau_J |-> Arr(NumJoints, 100 * k + 50),
    dtau_J |-> Arr(NumJoints, 100 * k + 3),
    joint_collision |-> Arr(NumJoints, 100 * k + 4),
    joint_contact |-> Arr(NumJoints, 100 * k + 5),
    q_d |-> Arr(NumJoints, 100 * k + 6),
    tau_ext_hat_filtered |-> Arr(NumJoints, 100 * k + 7),
    elbow |-> Arr(2, 100 * k + 8),
    elbow_d |-> Arr(2, 100 * k + 9),
    O_T_EE |-> Arr(16, 100 * k + 60),
    F_T_EE |-> Arr(16, 100 * k + 61),
    EE_T_K |-> Arr(16, 100 * k + 62),
    O_T_EE_d |-> Arr(16, 100 * k + 63),
    m_load |-> 100 * k + 90,
    I_load |-> Arr(9, 100 * k + 80),
    F_x_Cload |-> Arr(3, 100 * k + 91),
    time |-> 100 * k + 99,
    current_errors |-> current,
    last_motion_errors |-> last ]

\* a default-constructed franka::RobotState: every field zero, no error
ZeroState ==
  [ cartesian_collision |-> Fill(6, 0), cartesian_contact |-> Fill(6, 0),
    K_F_ext_hat_K |-> Fill(6, 0), O_F_ext_hat_K |-> Fill(6, 0),
    q |-> Fill(NumJoints, 0), dq |-> Fill(NumJoints, 0),
    tau_J |-> Fill(NumJoints, 0), dtau_J |-> Fill(NumJoints, 0),
    joint_collision |-> Fill(NumJoints, 0), joint_contact |-> Fill(NumJoints, 0),
    q_d |-> Fill(NumJoints, 0), tau_ext_hat_filtered |-> Fill(NumJoints, 0),
    elbow |-> Fill(2, 0), elbow_d |-> Fill(2, 0),
    O_T_EE |-> Fill(16, 0), F_T_EE |-> Fill(16, 0),
    EE_T_K |-> Fill(16, 0), O_T_EE_d |-> Fill(16, 0),
    m_load |-> 0, I_load |-> Fill(9, 0), F_x_Cload |-> Fill(3, 0), time |-> 0,
    current_errors |-> ErrorsWith({}), last_motion_errors |-> ErrorsWith({}) ]

\* the states the hardware (the producer) moves between
HwStates ==
  { RobotState(1, ErrorsWith({"joint_motion_generator_velocity_limits_violation"}),
               ErrorsWith({"joint_reflex"})),
    RobotState(2, ErrorsWith({"cartesian_reflex"}),
               ErrorsWith({"joint_motion_generator_velocity_limits_violation",
                           "joint_velocity_violation"})) }

(* -------------------------- configuration ------------------------------ *)

\* a parameter the parameter server does not hold: getParam returns false
Absent == [found |-> FALSE]

\* a parameter the parameter server holds
Param(v) == [found |-> TRUE, value |-> v]

JointNames7 == Fill(7, "panda_joint")
JointNames6 == Fill(6, "panda_joint")

\* the handles the hardware's state interface has registered;
\* getHandle(name) throws for any other name
RegisteredHandles == {"panda_robot"}

\* what init() finds: the state interface of the hardware and the
\* parameters arm_id, publish_rate and joint_names
BaseConfig ==
  [ has_interface |-> TRUE, arm_id |-> Param("panda"), publish_rate |-> Absent,
    joint_names |-> Param(JointNames7) ]

\* nothing found: the value of the history variable config before init()
NoConfig ==
  [ has_interface |-> FALSE, arm_id |-> Absent, publish_rate |-> Absent,
    joint_names |-> Absent ]

Configs ==
  { BaseConfig,
    [BaseConfig EXCEPT !.has_interface = FALSE],
    [BaseConfig EXCEPT !.arm_id = Absent],
    [BaseConfig EXCEPT !.arm_id = Param("fr3")],
    [BaseConfig EXCEPT !.publish_rate = Param(0)],
    [BaseConfig EXCEPT !.joint_names = Absent],
    [BaseConfig EXCEPT !.joint_names = Param(JointNames6)] }

(* ----------------------------- rate gate ------------------------------- *)

\* franka_hw::TriggerRate(rate): the period 1/rate in clock units
\* (1/0.0 is infinite); the gate has not fired yet
TriggerRate(rate) ==
  [ infinite |-> rate = 0,
    period |-> IF rate = 0 THEN 0
               ELSE IF rate > 0 THEN TicksPerSec \div rate
               ELSE 0 - (TicksPerSec \div (0 - rate)),
    fired |-> FALSE,
    last_fired |-> 0 ]

\* TriggerRate::operator() read at clock t: is a publish due?
TriggerDue(trigger, t) ==
  \/ ~trigger.fired
  \/ /\ ~trigger.infinite
     /\ t - trigger.last_fired >= trigger.period

\* TriggerRate::operator() returning true at clock t records t
TriggerFire(trigger, t) ==
  [trigger EXCEPT !.fired = TRUE, !.last_fired = t]

(* ------------------------------- state --------------------------------- *)

VARIABLES
  init_result,              \* what init() returned: "none" before the call
  franka_state_interface_,  \* "nullptr" or "interface"
  franka_state_handle_,     \* "nullptr" or the name of the handle
  arm_id_,
  joint_names_,
  trigger_publish_,         \* the rate gate: period and last_fired
  robot_state_,             \* the controller's copy of the robot state
  sequence_number_,
  topic,                    \* per publisher: "" until init(), then its topic
  msg,                      \* per publisher: msg_, the one message buffer
  mutex,                    \* per publisher: "free", or "control" while the
                            \*   control thread holds msg_mutex_
  turn,                     \* per publisher: "REALTIME" or "NON_REALTIME"
  pc,                       \* where the control thread is in update()
  time,                     \* the time argument of the latest update() call
  hw_state,                 \* the robot state the hardware holds now
  now,                      \* ros::Time::now()
  cycle,                    \* history: publish cycles started so far
  wrote,                    \* history: per publisher, the cycle that last
                            \*   wrote each half of msg_ (0: init or never)
  captured,                 \* history: the hardware state getRobotState()
                            \*   returned in the latest publish cycle
  nsteps,                   \* history: steps the control thread has taken in
                            \*   the running call of update(); 0 outside
  pub_time,                 \* history: `time` of the latest publish cycle
  pub_clock,                \* history: the clock when that cycle started
  seq0,                     \* history: sequence_number_ at construction
  config,                   \* history: what init() found when it was called
  snapshots,                \* history: the robot states getRobotState()
                            \*   returned, one per publish cycle
  tf_array,                 \* a 16-scalar array handed to convertArrayToTf
  tf_result                 \* what convertArrayToTf returned for it

\* the argument and the result of a call of convertArrayToTf on its own
pose_vars == << tf_array, tf_result >>

vars ==
  << init_result, franka_state_interface_, franka_state_handle_, arm_id_,
     joint_names_, trigger_publish_, robot_state_, sequence_number_, topic,
     msg, mutex, turn, pc, time, hw_state, now, cycle, wrote, captured,
     nsteps, pub_time, pub_clock, seq0, config, snapshots, pose_vars >>

\* the fields init() sets
config_vars ==
  << init_result, franka_state_interface_, franka_state_handle_, arm_id_,
     joint_names_, topic, config >>

\* the history variables of a publish cycle
cycle_vars == << cycle, captured, pub_time, pub_clock, snapshots >>

(* ----------------------------- messages -------------------------------- *)

\* a default-constructed franka_hw::FrankaState message
DefaultFrankaStatesMsg ==
  [ cartesian_collision |-> Fill(6, 0), cartesian_contact |-> Fill(6, 0),
    K_F_ext_hat_K |-> Fill(6, 0), O_F_ext_hat_K |-> Fill(6, 0),
    q |-> Fill(NumJoints, 0), dq |-> Fill(NumJoints, 0),
    tau_J |-> Fill(NumJoints, 0), dtau_J |-> Fill(NumJoints, 0),
    joint_collision |-> Fill(NumJoints, 0), joint_contact |-> Fill(NumJoints, 0),
    q_d |-> Fill(NumJoints, 0), tau_ext_hat_filtered |-> Fill(NumJoints, 0),
    elbow |-> Fill(2, 0), elbow_d |-> Fill(2, 0),
    O_T_EE |-> Fill(16, 0), F_T_EE |-> Fill(16, 0),
    EE_T_K |-> Fill(16, 0), O_T_EE_d |-> Fill(16, 0),
    m_load |-> 0, I_load |-> Fill(9, 0), F_x_Cload |-> Fill(3, 0), time |-> 0,
    current_errors |-> DefaultErrorsMsg, last_motion_errors |-> DefaultErrorsMsg,
    seq |-> 0, stamp |-> 0 ]

\* a default-constructed sensor_msgs::JointState message
DefaultJointStatesMsg ==
  [ name |-> Fill(0, ""), position |-> Fill(0, 0), velocity |-> Fill(0, 0),
    effort |-> Fill(0, 0), seq |-> 0, stamp |-> 0 ]

\* a default-constructed tf2_msgs::TFMessage
DefaultTFMsg == [ transforms |-> Fill(0, 0) ]

\* a default-constructed geometry_msgs::WrenchStamped message
DefaultWrenchMsg ==
  [ frame_id |-> "", stamp |-> 0, force |-> <<0, 0, 0>>, torque |-> <<0, 0, 0>> ]

\* the publishers as the constructor leaves them
DefaultMsgs ==
  [ c \in Channels |->
      CASE c = "franka_states" -> DefaultFrankaStatesMsg
        [] c = "joint_states" -> DefaultJointStatesMsg
        [] c = "tf" -> DefaultTFMsg
        [] c = "F_ext" -> DefaultWrenchMsg ]

\* publishFrankaStates, the copy loops: every field of robot_state_
FrankaStates_fill(m) ==
  [ cartesian_collision |-> [i \in 0..5 |-> robot_state_.cartesian_collision[i]],
    cartesian_contact |-> [i \in 0..5 |-> robot_state_.cartesian_contact[i]],
    K_F_ext_hat_K |-> [i \in 0..5 |-> robot_state_.K_F_ext_hat_K[i]],
    O_F_ext_hat_K |-> [i \in 0..5 |-> robot_state_.O_F_ext_hat_K[i]],
    q |-> [i \in 0..6 |-> robot_state_.q[i]],
    dq |-> [i \in 0..6 |-> robot_state_.dq[i]],
    tau_J |-> [i \in 0..6 |-> robot_state_.tau_J[i]],
    dtau_J |-> [i \in 0..6 |-> robot_state_.dtau_J[i]],
    joint_collision |-> [i \in 0..6 |-> robot_state_.joint_collision[i]],
    joint_contact |-> [i \in 0..6 |-> robot_state_.joint_contact[i]],
    q_d |-> [i \in 0..6 |-> robot_state_.q_d[i]],
    tau_ext_hat_filtered |-> [i \in 0..6 |-> robot_state_.tau_ext_hat_filtered[i]],
    elbow |-> [i \in 0..1 |-> robot_state_.elbow[i]],
    elbow_d |-> [i \in 0..1 |-> robot_state_.elbow_d[i]],
    O_T_EE |-> [i \in 0..15 |-> robot_state_.O_T_EE[i]],
    F_T_EE |-> [i \in 0..15 |-> robot_state_.F_T_EE[i]],
    EE_T_K |-> [i \in 0..15 |-> robot_state_.EE_T_K[i]],
    O_T_EE_d |-> [i \in 0..15 |-> robot_state_.O_T_EE_d[i]],
    m_load |-> robot_state_.m_load,
    I_load |-> [i \in 0..8 |-> robot_state_.I_load[i]],
    F_x_Cload |-> [i \in 0..2 |-> robot_state_.F_x_Cload[i]],
    time |-> robot_state_.time,
    current_errors |-> errorsToMessage(robot_state_.current_errors),
    last_motion_errors |-> errorsToMessage(robot_state_.last_motion_errors),
    seq |-> m.seq, stamp |-> m.stamp ]

\* mutant of FrankaStates_stamp: header.seq counts the messages, one more
\* than in the message before
FrankaStates_stamp_counting_messages(m) ==
  [m EXCEPT !.seq = IF wrote["franka_states"].second = 0
                    THEN sequence_number_ ELSE m.seq + 1,
            !.stamp = time]

\* publishFrankaStates, the header
FrankaStates_stamp(m) ==
  [m EXCEPT !.seq = sequence_number_, !.stamp = time]

\* mutant of JointStates_fill: the joint values are read from the state
\* handle again instead of from robot_state_
JointStates_fill_reread(m) ==
  [m EXCEPT !.name = [i \in 0..6 |-> joint_names_[i]],
            !.position = [i \in 0..6 |-> hw_state.q[i]],
            !.velocity = [i \in 0..6 |-> hw_state.dq[i]],
            !.effort = [i \in 0..6 |-> hw_state.tau_J[i]]]

\* mutant of JointStates_fill: a cycle that follows one in which
\* joint_states was skipped sends the skipped cycle's joint values
JointStates_fill_replay(m) ==
  LET s == IF cycle > 1 /\ wrote["joint_states"].second < cycle - 1
           THEN snapshots[cycle - 1]
           ELSE robot_state_
  IN [m EXCEPT !.name = [i \in 0..6 |-> joint_names_[i]],
               !.position = [i \in 0..6 |-> s.q[i]],
               !.velocity = [i \in 0..6 |-> s.dq[i]],
               !.effort = [i \in 0..6 |-> s.tau_J[i]]]

\* publishJointStates, the copy loop
JointStates_fill(m) ==
  [m EXCEPT !.name = [i \in 0..6 |-> joint_names_[i]],
            !.position = [i \in 0..6 |-> robot_state_.q[i]],
            !.velocity = [i \in 0..6 |-> robot_state_.dq[i]],
            !.effort = [i \in 0..6 |-> robot_state_.tau_J[i]]]

\* publishJointStates, the header
JointStates_stamp(m) ==
  [m EXCEPT !.stamp = time, !.seq = sequence_number_]

\* publishTransforms, transforms[0]: link8 -> EE from F_T_EE
Transforms_first(m) ==
  [m EXCEPT !.transforms[0] =
     StampedTransform(convertArrayToTf(robot_state_.F_T_EE), time,
                      arm_id_ \o "_link8", arm_id_ \o "_EE")]

\* publishTransforms, transforms[1]: EE -> K from EE_T_K
Transforms_second(m) ==
  [m EXCEPT !.transforms[1] =
     StampedTransform(convertArrayToTf(robot_state_.EE_T_K), time,
                      arm_id_ \o "_EE", arm_id_ \o "_K")]

\* publishExternalWrench, the header
ExternalWrench_stamp(m) ==
  [m EXCEPT !.frame_id = arm_id_ \o "_K", !.stamp = time]

\* mutant of ExternalWrench_fill: the wrench is read from the base-frame
\* estimate O_F_ext_hat_K
ExternalWrench_fill_base_frame(m) ==
  [m EXCEPT !.force = << robot_state_.O_F_ext_hat_K[0],
                         robot_state_.O_F_ext_hat_K[1],
                         robot_state_.O_F_ext_hat_K[2] >>,
            !.torque = << robot_state_.O_F_ext_hat_K[3],
                          robot_state_.O_F_ext_hat_K[4],
                          robot_state_.O_F_ext_hat_K[5] >>]

\* publishExternalWrench, force and torque
ExternalWrench_fill(m) ==
  [m EXCEPT !.force = << robot_state_.K_F_ext_hat_K[0],
                         robot_state_.K_F_ext_hat_K[1],
                         robot_state_.K_F_ext_hat_K[2] >>,
            !.torque = << robot_state_.K_F_ext_hat_K[3],
                          robot_state_.K_F_ext_hat_K[4],
                          robot_state_.K_F_ext_hat_K[5] >>]

(* ------------------------- after construction -------------------------- *)

\* the values sequence_number_ may hold after construction: the
\* constructor's initialiser list does not name it
InitialSequenceNumbers == {0, 7}

\* the controller as its constructor leaves it, and its surroundings
Construction ==
  /\ init_result = "none"
  /\ franka_state_interface_ = "nullptr"
  /\ franka_state_handle_ = "nullptr"
  /\ arm_id_ = ""
  /\ joint_names_ = Fill(0, "")
  /\ trigger_publish_ = TriggerRate(DefaultPublishRate)
  /\ robot_state_ = ZeroState
  /\ sequence_number_ \in InitialSequenceNumbers
  /\ seq0 = sequence_number_
  /\ topic = [c \in Channels |-> ""]
  /\ msg = DefaultMsgs
  /\ mutex = [c \in Channels |-> "free"]
  /\ turn = [c \in Channels |-> "REALTIME"]
  /\ pc = "idle"
  /\ time = 0
  /\ hw_state \in HwStates
  /\ now = 0
  /\ cycle = 0
  /\ wrote = [c \in Channels |-> [first |-> 0, second |-> 0]]
  /\ captured = ZeroState
  /\ nsteps = 0
  /\ pub_time = 0
  /\ pub_clock = 0
  /\ config = NoConfig
  /\ snapshots = << >>

Init ==
  /\ Construction
  /\ tf_array = Fill(16, 0)
  /\ tf_result = NoPose

(* ------------------------------- init() -------------------------------- *)

\* the number of entries of a vector
Size(v) == Cardinality(DOMAIN v)

\* the messages as init() leaves them: joint_states resized, the two
\* transforms and the wrench preset
InitMsgs(arm) ==
  [ c \in Channels |->
      CASE c = "franka_states" -> msg[c]
        [] c = "joint_states" ->
             [msg[c] EXCEPT !.name = Fill(7, ""),
                            !.position = Fill(Size(robot_state_.q), 0),
                            !.velocity = Fill(Size(robot_state_.dq), 0),
                            !.effort = Fill(Size(robot_state_.tau_J), 0)]
        [] c = "tf" ->
             [ transforms |->
                 [ i \in 0..1 |->
                     IF i = 0
                     THEN StampedTransform(
                            [rotation |-> IdentityRotation,
                             translation |-> <<0, 0, InitEEOffsetZ>>],
                            now, arm \o "_link8", arm \o "_EE")
                     ELSE StampedTransform(
                            [rotation |-> IdentityRotation,
                             translation |-> <<0, 0, 0>>],
                            now, arm \o "_EE", arm \o "_K") ] ]
        [] c = "F_ext" ->
             [msg[c] EXCEPT !.frame_id = arm \o "_K",
                            !.force = <<0, 0, 0>>, !.torque = <<0, 0, 0>>] ]

\* the topic each publisher is initialised with
Topics ==
  [ c \in Channels |-> IF c = "tf" THEN "/tf" ELSE c ]

\* mutant of init_failure: an exception of getHandle() is not caught as a
\* failure
init_failure_without_handle_check(cfg) ==
  IF ~cfg.has_interface THEN "interface"
  ELSE IF ~cfg.arm_id.found THEN "arm_id"
  ELSE IF ~cfg.joint_names.found \/ Size(cfg.joint_names.value) # 7
       THEN "joint_names"
  ELSE "none"

\* init(): the first check of the code that fails, in the order of the code
init_failure(cfg) ==
  IF ~cfg.has_interface THEN "interface"
  ELSE IF ~cfg.arm_id.found THEN "arm_id"
  ELSE IF ~cfg.joint_names.found \/ Size(cfg.joint_names.value) # 7
       THEN "joint_names"
  ELSE IF (cfg.arm_id.value \o "_robot") \notin RegisteredHandles
       THEN "handle"
  ELSE "none"

\* init(): every assignment made before the failing check's return false
\* is kept; the publishers are initialised only when no check fails
init(cfg) ==
  /\ init_result = "none"
  /\ config' = cfg
  /\ LET failure == init_failure(cfg)
         before_arm_id == failure = "interface"
         before_rate == failure \in {"interface", "arm_id"}
     IN
     /\ franka_state_interface_' =
          IF cfg.has_interface THEN "interface" ELSE "nullptr"
     /\ arm_id_' =
          IF before_arm_id \/ ~cfg.arm_id.found THEN arm_id_
          ELSE cfg.arm_id.value
     /\ trigger_publish_' =
          IF before_rate \/ ~cfg.publish_rate.found THEN trigger_publish_
          ELSE TriggerRate(cfg.publish_rate.value)
     /\ joint_names_' =
          IF before_rate \/ ~cfg.joint_names.found THEN joint_names_
          ELSE cfg.joint_names.value
     /\ IF failure = "none"
        THEN /\ franka_state_handle_' = cfg.arm_id.value \o "_robot"
             /\ topic' = Topics
             /\ msg' = InitMsgs(cfg.arm_id.value)
             /\ init_result' = "true"
        ELSE /\ init_result' = "false"
             /\ UNCHANGED << franka_state_handle_, topic, msg >>
  /\ UNCHANGED << robot_state_, sequence_number_, mutex, turn, pc, time,
                  hw_state, now, cycle, wrote, captured, nsteps, pub_time,
                  pub_clock, seq0, snapshots, pose_vars >>

(* ------------------------------ update() ------------------------------- *)

\* franka_state_handle_->getRobotState(): the state the hardware holds
getRobotState == hw_state

\* mutant of update: the rate gate is not asked, every call publishes
update_ungated(t) ==
  /\ init_result = "true"
  /\ pc = "idle"
  /\ time <= t
  /\ now - MaxLag <= t
  /\ t <= now
  /\ nsteps' = 1
  /\ time' = t
  /\ cycle < MaxCycles
  /\ trigger_publish_' = TriggerFire(trigger_publish_, now)
  /\ robot_state_' = getRobotState
  /\ pc' = "franka_try"
  /\ cycle' = cycle + 1
  /\ captured' = hw_state
  /\ snapshots' = Append(snapshots, hw_state)
  /\ pub_time' = t
  /\ pub_clock' = now
  /\ UNCHANGED << config_vars, sequence_number_, msg, mutex, turn,
                  hw_state, now, wrote, seq0, pose_vars >>

\* mutant of update: the robot state is copied from the state handle
\* before the rate gate is asked
update_reads_first(t) ==
  /\ init_result = "true"
  /\ pc = "idle"
  /\ time <= t
  /\ now - MaxLag <= t
  /\ t <= now
  /\ time' = t
  /\ robot_state_' = getRobotState
  /\ IF TriggerDue(trigger_publish_, now)
     THEN /\ cycle < MaxCycles
          /\ nsteps' = 1
          /\ trigger_publish_' = TriggerFire(trigger_publish_, now)
          /\ pc' = "franka_try"
          /\ cycle' = cycle + 1
          /\ captured' = hw_state
          /\ snapshots' = Append(snapshots, hw_state)
          /\ pub_time' = t
          /\ pub_clock' = now
     ELSE UNCHANGED << trigger_publish_, pc, cycle, captured, pub_time,
                       pub_clock, snapshots, nsteps >>
  /\ UNCHANGED << config_vars, sequence_number_, msg, mutex, turn,
                  hw_state, now, wrote, seq0, pose_vars >>

\* update(t): ask the rate gate; on a publish cycle copy the robot state
\* and go through the four publish functions
update(t) ==
  /\ init_result = "true"
  /\ pc = "idle"
  /\ time <= t
  /\ now - MaxLag <= t
  /\ t <= now
  /\ time' = t
  /\ IF TriggerDue(trigger_publish_, now)
     THEN /\ cycle < MaxCycles
          /\ nsteps' = 1
          /\ trigger_publish_' = TriggerFire(trigger_publish_, now)
          /\ robot_state_' = getRobotState
          /\ pc' = "franka_try"
          /\ cycle' = cycle + 1
          /\ captured' = hw_state
          /\ snapshots' = Append(snapshots, hw_state)
          /\ pub_time' = t
          /\ pub_clock' = now
     ELSE UNCHANGED << trigger_publish_, robot_state_, pc, cycle, captured,
                       pub_time, pub_clock, snapshots, nsteps >>
  /\ UNCHANGED << config_vars, sequence_number_, msg, mutex, turn,
                  hw_state, now, wrote, seq0, pose_vars >>

\* RealtimePublisher::trylock(): msg_mutex_.try_lock() succeeds and it is
\* the realtime side's turn.  The publishing thread holds the mutex for
\* the instants in which it looks at turn_ or copies msg_; publisher_holds
\* says whether this call falls into such an instant.
trylock(c, publisher_holds) ==
  /\ ~publisher_holds
  /\ mutex[c] = "free"
  /\ turn[c] = "REALTIME"

\* mutant of TryStep: the block is entered whatever trylock() returned
TryStep_ignoring_result(c, here, inside, after) ==
  /\ pc = here
  /\ \E publisher_holds \in BOOLEAN :
       mutex' = IF trylock(c, publisher_holds)
                THEN [mutex EXCEPT ![c] = "control"]
                ELSE mutex
  /\ pc' = inside
  /\ nsteps' = nsteps + 1
  /\ UNCHANGED << config_vars, trigger_publish_, robot_state_,
                  sequence_number_, msg, turn, time, hw_state, now,
                  cycle_vars, wrote, seq0, pose_vars >>

\* mutant of TryStep: the control thread waits until trylock() succeeds
TryStep_waiting(c, here, inside, after) ==
  /\ pc = here
  /\ trylock(c, FALSE)
  /\ mutex' = [mutex EXCEPT ![c] = "control"]
  /\ pc' = inside
  /\ nsteps' = nsteps + 1
  /\ UNCHANGED << config_vars, trigger_publish_, robot_state_,
                  sequence_number_, msg, turn, time, hw_state, now,
                  cycle_vars, wrote, seq0, pose_vars >>

\* if (publisher.trylock()) { ... }: enter the block holding the lock, or
\* go on to what follows the publish function
TryStep(c, here, inside, after) ==
  /\ pc = here
  /\ \E publisher_holds \in BOOLEAN :
       IF trylock(c, publisher_holds)
       THEN /\ mutex' = [mutex EXCEPT ![c] = "control"]
            /\ pc' = inside
       ELSE /\ mutex' = mutex
            /\ pc' = after
  /\ nsteps' = nsteps + 1
  /\ UNCHANGED << config_vars, trigger_publish_, robot_state_,
                  sequence_number_, msg, turn, time, hw_state, now,
                  cycle_vars, wrote, seq0, pose_vars >>

\* mutant of FillStep: unlockAndPublish() is called after the first half
\* of the writes already
FillStep_early_publish(c, here, next, m) ==
  /\ pc = here
  /\ msg' = [msg EXCEPT ![c] = m]
  /\ wrote' = [wrote EXCEPT ![c].first = cycle]
  /\ turn' = [turn EXCEPT ![c] = "NON_REALTIME"]
  /\ mutex' = [mutex EXCEPT ![c] = "free"]
  /\ pc' = next
  /\ nsteps' = nsteps + 1
  /\ UNCHANGED << config_vars, trigger_publish_, robot_state_,
                  sequence_number_, time, hw_state, now, cycle_vars, seq0,
                  pose_vars >>

\* the first half of the writes to publisher c's msg_
FillStep(c, here, next, m) ==
  /\ pc = here
  /\ msg' = [msg EXCEPT ![c] = m]
  /\ wrote' = [wrote EXCEPT ![c].first = cycle]
  /\ pc' = next
  /\ nsteps' = nsteps + 1
  /\ UNCHANGED << config_vars, trigger_publish_, robot_state_,
                  sequence_number_, mutex, turn, time, hw_state, now,
                  cycle_vars, seq0, pose_vars >>

\* mutant of FinishStep: the block ends without unlockAndPublish()
FinishStep_without_unlock(c, here, next, m) ==
  /\ pc = here
  /\ msg' = [msg EXCEPT ![c] = m]
  /\ wrote' = [wrote EXCEPT ![c].second = cycle]
  /\ pc' = next
  /\ nsteps' = nsteps + 1
  /\ UNCHANGED << config_vars, trigger_publish_, robot_state_,
                  sequence_number_, mutex, turn, time, hw_state, now,
                  cycle_vars, seq0, pose_vars >>

\* mutant of FinishStep: the block ends with unlock() in place of
\* unlockAndPublish()
FinishStep_plain_unlock(c, here, next, m) ==
  /\ pc = here
  /\ msg' = [msg EXCEPT ![c] = m]
  /\ wrote' = [wrote EXCEPT ![c].second = cycle]
  /\ mutex' = [mutex EXCEPT ![c] = "free"]
  /\ pc' = next
  /\ nsteps' = nsteps + 1
  /\ UNCHANGED << config_vars, trigger_publish_, robot_state_,
                  sequence_number_, turn, time, hw_state, now, cycle_vars,
                  seq0, pose_vars >>

\* the second half of the writes to publisher c's msg_, then
\* unlockAndPublish(): hand the message to the publishing thread
FinishStep(c, here, next, m) ==
  /\ pc = here
  /\ msg' = [msg EXCEPT ![c] = m]
  /\ wrote' = [wrote EXCEPT ![c].second = cycle]
  /\ turn' = [turn EXCEPT ![c] = "NON_REALTIME"]
  /\ mutex' = [mutex EXCEPT ![c] = "free"]
  /\ pc' = next
  /\ nsteps' = nsteps + 1
  /\ UNCHANGED << config_vars, trigger_publish_, robot_state_,
                  sequence_number_, time, hw_state, now, cycle_vars,
                  seq0, pose_vars >>

publishFrankaStates_try ==
  TryStep("franka_states", "franka_try", "franka_fill", "tf_try")

publishFrankaStates_fill ==
  FillStep("franka_states", "franka_fill", "franka_stamp",
           FrankaStates_fill(msg["franka_states"]))

publishFrankaStates_stamp ==
  FinishStep("franka_states", "franka_stamp", "tf_try",
             FrankaStates_stamp(msg["franka_states"]))

publishTransforms_try ==
  TryStep("tf", "tf_try", "tf_first", "wrench_try")

publishTransforms_first ==
  FillStep("tf", "tf_first", "tf_second", Transforms_first(msg["tf"]))

publishTransforms_second ==
  FinishStep("tf", "tf_second", "wrench_try", Transforms_second(msg["tf"]))

publishExternalWrench_try ==
  TryStep("F_ext", "wrench_try", "wrench_stamp", "joint_try")

publishExternalWrench_stamp ==
  FillStep("F_ext", "wrench_stamp", "wrench_fill",
           ExternalWrench_stamp(msg["F_ext"]))

publishExternalWrench_fill ==
  FinishStep("F_ext", "wrench_fill", "joint_try",
             ExternalWrench_fill(msg["F_ext"]))

\* mutant of publishJointStates_try: trylock() is called on
\* publisher_franka_states_
publishJointStates_try_wrong_publisher ==
  TryStep("franka_states", "joint_try", "joint_fill", "seq_incr")

publishJointStates_try ==
  TryStep("joint_states", "joint_try", "joint_fill", "seq_incr")

publishJointStates_fill ==
  FillStep("joint_states", "joint_fill", "joint_stamp",
           JointStates_fill(msg["joint_states"]))

publishJointStates_stamp ==
  FinishStep("joint_states", "joint_stamp", "seq_incr",
             JointStates_stamp(msg["joint_states"]))

\* mutant of update_increment: sequence_number_ is left as it is
update_no_increment ==
  /\ pc = "seq_incr"
  /\ sequence_number_' = sequence_number_
  /\ pc' = "idle"
  /\ nsteps' = 0
  /\ UNCHANGED << config_vars, trigger_publish_, robot_state_, msg, mutex,
                  turn, time, hw_state, now, cycle_vars, wrote, seq0,
                  pose_vars >>

\* mutant of update_increment: sequence_number_ is incremented only when
\* franka_states was published in this cycle
update_increment_if_published ==
  /\ pc = "seq_incr"
  /\ sequence_number_' =
       IF wrote["franka_states"].second = cycle THEN sequence_number_ + 1
       ELSE sequence_number_
  /\ pc' = "idle"
  /\ nsteps' = 0
  /\ UNCHANGED << config_vars, trigger_publish_, robot_state_, msg, mutex,
                  turn, time, hw_state, now, cycle_vars, wrote, seq0,
                  pose_vars >>

\* sequence_number_++, the last statement of a publish cycle
update_increment ==
  /\ pc = "seq_incr"
  /\ sequence_number_' = sequence_number_ + 1
  /\ pc' = "idle"
  /\ nsteps' = 0
  /\ UNCHANGED << config_vars, trigger_publish_, robot_state_, msg, mutex,
                  turn, time, hw_state, now, cycle_vars, wrote, seq0,
                  pose_vars >>

\* the steps of the control thread inside update()
ControlStep ==
  \/ publishFrankaStates_try \/ publishFrankaStates_fill
  \/ publishFrankaStates_stamp
  \/ publishTransforms_try \/ publishTransforms_first
  \/ publishTransforms_second
  \/ publishExternalWrench_try \/ publishExternalWrench_stamp
  \/ publishExternalWrench_fill
  \/ publishJointStates_try \/ publishJointStates_fill
  \/ publishJointStates_stamp
  \/ update_increment

(* ------------------------ the publishing threads ----------------------- *)

\* publishingLoop of publisher c, once a message was handed off: under the
\* mutex, outgoing = msg_ and turn_ = REALTIME; then the message is sent
publisher_take(c) ==
  /\ topic[c] # ""
  /\ mutex[c] = "free"
  /\ turn[c] = "NON_REALTIME"
  /\ turn' = [turn EXCEPT ![c] = "REALTIME"]
  /\ UNCHANGED << config_vars, trigger_publish_, robot_state_,
                  sequence_number_, msg, mutex, pc, time, hw_state, now,
                  cycle_vars, wrote, nsteps, seq0, pose_vars >>

(* --------------------------- the environment --------------------------- *)

\* the hardware moves to another state
hardware_step ==
  /\ \E s \in HwStates \ {hw_state} : hw_state' = s
  /\ UNCHANGED << config_vars, trigger_publish_, robot_state_,
                  sequence_number_, msg, mutex, turn, pc, time, now,
                  cycle_vars, wrote, nsteps, seq0, pose_vars >>

\* the wall clock advances, counted from the call of init(); one clock unit
\* is far longer than a run of update(), which reads the clock only on entry
clock_tick ==
  /\ now < MaxClock
  /\ init_result # "none"
  /\ pc = "idle"
  /\ now' = now + 1
  /\ UNCHANGED << config_vars, trigger_publish_, robot_state_,
                  sequence_number_, msg, mutex, turn, pc, time,
                  hw_state, cycle_vars, wrote, nsteps, seq0,
                  pose_vars >>

Next ==
  \/ \E cfg \in Configs : init(cfg)
  \/ \E t \in 0..MaxClock : update(t)
  \/ ControlStep
  \/ \E c \in Channels : publisher_take(c)
  \/ hardware_step
  \/ clock_tick

Spec == Init /\ [][Next]_vars

(* -------------------- convertArrayToTf on its own ---------------------- *)

\* the 4x4 identity matrix, column-major
IdentityArray == [i \in 0..15 |-> IF i \in {0, 5, 10, 15} THEN 1 ELSE 0]

\* the identity matrix with the translation (1, 2, 3), column-major
TranslationArray ==
  [IdentityArray EXCEPT ![12] = 1, ![13] = 2, ![14] = 3]

\* an array whose 16 entries all differ
DistinctArray == Arr(16, 1)

\* the arrays convertArrayToTf is called with
TfInputs ==
  { [i \in 0..15 |-> IF i \in S THEN 1 ELSE 0] :
      S \in {T \in SUBSET (0..15) : Cardinality(T) <= MaxOnes} }
  \cup {IdentityArray, TranslationArray, DistinctArray}

\* the controller's own variables
controller_vars ==
  << config_vars, trigger_publish_, robot_state_, sequence_number_, msg,
     mutex, turn, pc, time, hw_state, now, cycle_vars, wrote, nsteps, seq0 >>

InitTf ==
  /\ Construction
  /\ sequence_number_ = 0
  /\ hw_state = CHOOSE s \in HwStates : TRUE
  /\ tf_array \in TfInputs
  /\ tf_result = NoPose

\* one call of convertArrayToTf
convertArrayToTf_call ==
  /\ tf_result = NoPose
  /\ tf_result' = convertArrayToTf(tf_array)
  /\ UNCHANGED << controller_vars, tf_array >>

NextTf == convertArrayToTf_call

SpecTf == InitTf /\ [][NextTf]_vars

(* ---------------- publishing once per clock unit ----------------------- *)

\* publish_rate is TicksPerSec Hz: the period is one clock unit, so that
\* up to MaxCycles publish cycles fit into the clock's range
FastConfig == [BaseConfig EXCEPT !.publish_rate = Param(TicksPerSec)]

NextFast ==
  \/ init(FastConfig)
  \/ \E t \in 0..MaxClock : update(t)
  \/ ControlStep
  \/ \E c \in Channels : publisher_take(c)
  \/ clock_tick

\* the hardware stays in one state
InitFast ==
  /\ Init
  /\ hw_state = CHOOSE s \in HwStates : TRUE

SpecFast == InitFast /\ [][NextFast]_vars

(* ------------------- update() called without end ---------------------- *)

\* publish_rate is the control loop's rate: the period is no longer than
\* the time between two calls of update(), so that the gate fires in each
RapidConfig == [BaseConfig EXCEPT !.publish_rate = Param(ControlRate)]

\* update(t) as above; the history of the publish cycles is not kept
update_live(t) ==
  /\ init_result = "true"
  /\ pc = "idle"
  /\ time <= t
  /\ now - MaxLag <= t
  /\ t <= now
  /\ time' = t
  /\ IF TriggerDue(trigger_publish_, now)
     THEN /\ nsteps' = 1
          /\ trigger_publish_' = TriggerFire(trigger_publish_, now)
          /\ robot_state_' = getRobotState
          /\ pc' = "franka_try"
     ELSE UNCHANGED << trigger_publish_, robot_state_, pc, nsteps >>
  /\ UNCHANGED << config_vars, sequence_number_, msg, mutex, turn,
                  hw_state, now, cycle_vars, wrote, seq0, pose_vars >>

\* sequence_number_++ as above, counted modulo SeqModulus
update_increment_live ==
  /\ pc = "seq_incr"
  /\ sequence_number_' = (sequence_number_ + 1) % SeqModulus
  /\ pc' = "idle"
  /\ nsteps' = 0
  /\ UNCHANGED << config_vars, trigger_publish_, robot_state_, msg, mutex,
                  turn, time, hw_state, now, cycle_vars, wrote, seq0,
                  pose_vars >>

\* the steps of the control thread inside update()
ControlStepLive ==
  \/ publishFrankaStates_try \/ publishFrankaStates_fill
  \/ publishFrankaStates_stamp
  \/ publishTransforms_try \/ publishTransforms_first
  \/ publishTransforms_second
  \/ publishExternalWrench_try \/ publishExternalWrench_stamp
  \/ publishExternalWrench_fill
  \/ publishJointStates_try \/ publishJointStates_fill
  \/ publishJointStates_stamp
  \/ update_increment_live

\* publisher c's trylock() returns true
trylock_succeeds(c) ==
  /\ ControlStepLive
  /\ mutex[c] = "free"
  /\ mutex'[c] = "control"

InitLive ==
  /\ Init
  /\ sequence_number_ = 0
  /\ hw_state = CHOOSE s \in HwStates : TRUE

NextLive ==
  \/ init(RapidConfig)
  \/ \E t \in 0..MaxClock : update_live(t)
  \/ ControlStepLive
  \/ \E c \in Channels : publisher_take(c)

\* init() is called; the control loop goes on calling update() and each
\* call runs on to its end; each publishing thread goes on running; and a
\* trylock() that is called again and again with no message pending does
\* not meet the publishing thread holding the mutex every time
FairnessLive ==
  /\ WF_vars(init(RapidConfig))
  /\ WF_vars(\E t \in 0..MaxClock : update_live(t))
  /\ WF_vars(ControlStepLive)
  /\ \A c \in Channels : WF_vars(publisher_take(c))
  /\ \A c \in Channels : SF_vars(trylock_succeeds(c))

SpecLive == InitLive /\ [][NextLive]_vars /\ FairnessLive

(* ------------------- positions and outcomes of a cycle ----------------- *)

\* the control thread's position at publisher c's trylock()
TryLabel(c) ==
  CASE c = "franka_states" -> "franka_try"
    [] c = "tf" -> "tf_try"
    [] c = "F_ext" -> "wrench_try"
    [] c = "joint_states" -> "joint_try"

\* its positions inside the block that holds publisher c's lock
BlockLabels(c) ==
  CASE c = "franka_states" -> {"franka_fill", "franka_stamp"}
    [] c = "tf" -> {"tf_first", "tf_second"}
    [] c = "F_ext" -> {"wrench_stamp", "wrench_fill"}
    [] c = "joint_states" -> {"joint_fill", "joint_stamp"}

\* its position when publisher c's publish function has returned
AfterLabel(c) ==
  CASE c = "franka_states" -> "tf_try"
    [] c = "tf" -> "wrench_try"
    [] c = "F_ext" -> "joint_try"
    [] c = "joint_states" -> "seq_incr"

\* the publishers in the order update() calls their publish functions
CallOrder == << "franka_states", "tf", "F_ext", "joint_states" >>

CallIndex(c) == CHOOSE i \in 1..4 : CallOrder[i] = c

\* the positions at which publisher c's publish function has returned in
\* the current cycle
Returned(c) ==
  {"seq_incr", "idle"} \cup
  UNION { {TryLabel(d)} \cup BlockLabels(d) :
            d \in {e \in Channels : CallIndex(e) > CallIndex(c)} }

\* publisher c handed a message off in the current publish cycle
Published(c) == cycle > 0 /\ wrote[c].second = cycle

\* publisher c's publish function returned in the current publish cycle
\* without touching msg_
Skipped(c) == cycle > 0 /\ pc \in Returned(c) /\ wrote[c].first # cycle

\* a message of publisher c is handed off and not yet taken
Pending(c) == turn[c] = "NON_REALTIME"

(* ======================================================================= *)
(* Properties                                                              *)
(* ======================================================================= *)

\* C1: a publish function that finds its publisher's buffer busy skips.
\* When the control thread leaves a trylock() position while the
\* publisher's previous message is still pending, it goes straight to what
\* follows the publish function; and whenever it skips, every field of that
\* publisher's msg_, its turn and its mutex are left exactly as they were.
C1_BusySkipLeavesBuffer ==
  [][\A c \in Channels :
       (pc = TryLabel(c) /\ pc' # pc) =>
         /\ Pending(c) => pc' = AfterLabel(c)
         /\ pc' = AfterLabel(c) =>
              /\ msg'[c] = msg[c]
              /\ wrote'[c] = wrote[c]
              /\ turn'[c] = turn[c]
              /\ mutex'[c] = mutex[c]]_vars

\* C1, its case: in the second of two consecutive publish cycles with no
\* step of a publishing thread in between, every publisher was skipped; its
\* message of the first cycle is still pending
C1_SecondCycleSkipped ==
  /\ cycle = 2
  /\ pc = "seq_incr"
  /\ \A c \in Channels :
       Skipped(c) /\ Pending(c) /\ wrote[c].first = 1 /\ wrote[c].second = 1

\* the most steps one call of update() takes: the entry, a trylock() and
\* two halves of writes per publisher, the increment that returns
UpdateStepLimit == 1 + 4 * 3 + 1

\* C2: update() never waits.  Wherever the control thread is inside
\* update(), and whatever the publishing threads hold, its next step can be
\* taken; and a call takes at most UpdateStepLimit steps, the last of which
\* returns.
C2_UpdateNeverWaits ==
  /\ pc # "idle" => ENABLED ControlStep
  /\ nsteps < UpdateStepLimit
  /\ pc = "idle" <=> nsteps = 0

\* C2, its case: a call of update() is about to return after the entry
\* and four failed trylock() calls, with the messages of the cycle before
\* still pending on every publisher
C2_ReturningWithAllBusy ==
  /\ pc = "seq_incr"
  /\ cycle = 2
  /\ nsteps = 5
  /\ \A c \in Channels : Pending(c) /\ wrote[c].second = 1

\* the fields of the franka_states message that are copied as they are
FrankaDataFields ==
  { "cartesian_collision", "cartesian_contact", "K_F_ext_hat_K",
    "O_F_ext_hat_K", "q", "dq", "tau_J", "dtau_J", "joint_collision",
    "joint_contact", "q_d", "tau_ext_hat_filtered", "elbow", "elbow_d",
    "O_T_EE", "F_T_EE", "EE_T_K", "O_T_EE_d", "m_load", "I_load",
    "F_x_Cload", "time" }

\* the first half of publisher c's message is built from robot state s
FirstHalfFrom(c, s) ==
  CASE c = "franka_states" ->
         /\ \A f \in FrankaDataFields : msg[c][f] = s[f]
         /\ msg[c].current_errors = errorsToMessage(s.current_errors)
         /\ msg[c].last_motion_errors = errorsToMessage(s.last_motion_errors)
    [] c = "joint_states" ->
         /\ msg[c].position = s.q
         /\ msg[c].velocity = s.dq
         /\ msg[c].effort = s.tau_J
    [] c = "tf" ->
         /\ msg[c].transforms[0].rotation = convertArrayToTf(s.F_T_EE).rotation
         /\ msg[c].transforms[0].translation =
              convertArrayToTf(s.F_T_EE).translation
    [] c = "F_ext" -> TRUE

\* the second half of publisher c's message is built from robot state s
SecondHalfFrom(c, s) ==
  CASE c = "tf" ->
         /\ msg[c].transforms[1].rotation = convertArrayToTf(s.EE_T_K).rotation
         /\ msg[c].transforms[1].translation =
              convertArrayToTf(s.EE_T_K).translation
    [] c = "F_ext" ->
         /\ msg[c].force = << s.K_F_ext_hat_K[0], s.K_F_ext_hat_K[1],
                              s.K_F_ext_hat_K[2] >>
         /\ msg[c].torque = << s.K_F_ext_hat_K[3], s.K_F_ext_hat_K[4],
                               s.K_F_ext_hat_K[5] >>
    [] OTHER -> TRUE

\* C3: one read of the hardware per publish cycle.  robot_state_ is the
\* state getRobotState() returned when the cycle started, and everything a
\* publisher wrote in the cycle is built from that state, whatever the
\* hardware has moved to since.
C3_OneSnapshotPerCycle ==
  cycle > 0 =>
    /\ robot_state_ = captured
    /\ \A c \in Channels :
         /\ wrote[c].first = cycle => FirstHalfFrom(c, captured)
         /\ wrote[c].second = cycle => SecondHalfFrom(c, captured)

\* C3, its case: all four publishers published in one cycle and the
\* hardware has left the state that was captured
C3_AllPublishedHardwareMoved ==
  /\ pc = "idle"
  /\ \A c \in Channels : Published(c)
  /\ hw_state # captured

\* the header publisher c wrote in the current cycle holds the cycle's
\* time and sequence number
HeaderOfCycle(c) ==
  CASE c = "franka_states" ->
         msg[c].stamp = pub_time /\ msg[c].seq = seq0 + cycle - 1
    [] c = "joint_states" ->
         msg[c].stamp = pub_time /\ msg[c].seq = seq0 + cycle - 1
    [] c = "tf" ->
         /\ msg[c].transforms[0].stamp = pub_time
         /\ msg[c].transforms[1].stamp = pub_time
    [] c = "F_ext" -> msg[c].stamp = pub_time

\* C4: no torn message.  The control thread is inside a publisher's block
\* only while it holds that publisher's mutex and no message is pending;
\* and whenever the publishing thread can take msg_ (the message is pending
\* and the mutex is free), both halves of msg_ were written in one cycle,
\* with that cycle's time and sequence number.
C4_NoTornMessage ==
  \A c \in Channels :
    /\ pc \in BlockLabels(c) => mutex[c] = "control" /\ ~Pending(c)
    /\ (Pending(c) /\ mutex[c] = "free") =>
         /\ wrote[c].first = wrote[c].second
         /\ Published(c) => HeaderOfCycle(c)

\* C4, its case: the message franka_states published in the second cycle
\* can be taken while the control thread is part-way through writing the
\* joint_states message
C4_TakeWhileWritingAnother ==
  /\ cycle = 2
  /\ pc = "joint_stamp"
  /\ Published("franka_states")
  /\ Pending("franka_states")
  /\ wrote["joint_states"].first = 2
  /\ wrote["joint_states"].second = 1

\* C5: sequence numbers.  Each time franka_states hands off a message
\* after an earlier one, the new header.seq is greater than the one before;
\* and when joint_states and franka_states last published in the same
\* cycle, their messages hold the same header.seq.
C5_SequenceMonotone ==
  /\ [][(/\ wrote'["franka_states"].second # wrote["franka_states"].second
         /\ wrote["franka_states"].second > 0)
        => msg'["franka_states"].seq > msg["franka_states"].seq]_vars
  /\ [](( /\ wrote["franka_states"].second > 0
          /\ wrote["joint_states"].second = wrote["franka_states"].second)
        => msg["joint_states"].seq = msg["franka_states"].seq)

\* C5, its case: franka_states and joint_states both published in the
\* first cycle, and franka_states is about to hand off its second message
C5_SecondFrankaMessage ==
  /\ pc = "franka_stamp"
  /\ wrote["franka_states"].first = 2
  /\ wrote["franka_states"].second = 1
  /\ wrote["joint_states"].second = 1

\* C6, as claimed: sequence_number_ is incremented once per successful
\* franka_states publish.  It changes only at the end of a publish cycle;
\* there it goes up by one if franka_states published in the cycle and
\* stays as it is if franka_states was skipped.
C6_IncrementPerFrankaPublish ==
  [][IF pc = "seq_incr" /\ pc' = "idle"
     THEN sequence_number_' =
            IF Published("franka_states") THEN sequence_number_ + 1
            ELSE sequence_number_
     ELSE sequence_number_' = sequence_number_]_vars

\* C6, amended: sequence_number_ is incremented once per publish cycle,
\* whether franka_states published in it or was skipped.  It is its value
\* at construction plus the number of publish cycles that have ended.
C6_IncrementPerCycle ==
  sequence_number_ = seq0 + (IF pc = "idle" THEN cycle ELSE cycle - 1)

\* C6, its case: two publish cycles have ended; franka_states was skipped
\* in the second one, and the counter has gone up twice
C6_SkippedCycleCounted ==
  /\ pc = "idle"
  /\ cycle = 2
  /\ Skipped("franka_states")
  /\ sequence_number_ = seq0 + 2

\* C7, as claimed: error flags are preserved by name.  Every flag of
\* current_errors and of last_motion_errors in the franka_states message
\* written in a cycle equals the flag of the same name in the robot state
\* captured in that cycle.
C7_FlagsPreserved ==
  (cycle > 0 /\ wrote["franka_states"].first = cycle) =>
    \A f \in FlagNames :
      /\ msg["franka_states"].current_errors[f] = captured.current_errors[f]
      /\ msg["franka_states"].last_motion_errors[f] =
           captured.last_motion_errors[f]

\* C8: no lock across calls.  The control thread holds a publisher's mutex
\* exactly while it is inside that publisher's block, so it holds none
\* when update() has returned.
C8_NoLockAcrossCalls ==
  \A c \in Channels : mutex[c] = "control" <=> pc \in BlockLabels(c)

\* C8, its case: update() has returned from a cycle in which all four
\* publishers took and released their lock
C8_ReturnedAllReleased ==
  /\ pc = "idle"
  /\ cycle = 1
  /\ \A c \in Channels : Published(c) /\ mutex[c] = "free"

\* C9: the publishers are independent.  A step of the control thread in
\* publisher c's publish function leaves robot_state_ and the msg_, turn
\* and mutex of every other publisher unchanged; its trylock() step enters
\* the block exactly when it takes c's own mutex, which then was free with
\* no message of c pending; and the block is left only with c's message
\* handed off.
C9_ChannelsIndependent ==
  [][\A c \in Channels :
       (pc \in ({TryLabel(c)} \cup BlockLabels(c)) /\ pc' # pc) =>
         /\ robot_state_' = robot_state_
         /\ \A d \in Channels \ {c} :
              /\ msg'[d] = msg[d]
              /\ wrote'[d] = wrote[d]
              /\ turn'[d] = turn[d]
              /\ mutex'[d] = mutex[d]
         /\ pc = TryLabel(c) =>
              /\ pc' \in BlockLabels(c) \cup {AfterLabel(c)}
              /\ pc' \in BlockLabels(c) <=>
                   (mutex[c] = "free" /\ mutex'[c] = "control")
              /\ pc' \in BlockLabels(c) => ~Pending(c)
         /\ pc \in BlockLabels(c) =>
              /\ pc' \in BlockLabels(c) \cup {AfterLabel(c)}
              /\ pc' = AfterLabel(c) =>
                   wrote'[c].second = cycle /\ turn'[c] = "NON_REALTIME"]_vars

\* C9, its case: in one cycle franka_states and F_ext were skipped while
\* tf and joint_states published
C9_MixedOutcomes ==
  /\ pc = "idle"
  /\ cycle = 1
  /\ Skipped("franka_states")
  /\ Published("tf")
  /\ Skipped("F_ext")
  /\ Published("joint_states")

\* C10, as claimed: the rate gate decides from the time passed to
\* update().  A publish cycle after the first starts only when the time
\* argument of the call is at least one period after the time argument of
\* the call that started the previous publish cycle.
C10_GatedByTimeArgument ==
  [][(cycle' = cycle + 1 /\ cycle > 0) =>
       /\ ~trigger_publish_.infinite
       /\ time' - pub_time >= trigger_publish_.period]_vars

\* C10, amended: the rate gate decides from its own reading of the clock.
\* A publish cycle after the first starts only when the clock is at least
\* one period after the clock at which the previous publish cycle started,
\* and that clock reading is recorded as the new last-fired time.
C10_GatedByClock ==
  [][(cycle' = cycle + 1 /\ cycle > 0) =>
       /\ ~trigger_publish_.infinite
       /\ now - pub_clock >= trigger_publish_.period
       /\ trigger_publish_'.last_fired = now
       /\ pub_clock' = now]_vars

\* C10, its case: a second publish cycle has started from a call whose
\* time argument is older than the clock the gate read
C10_SecondCycleWithOlderTime ==
  /\ cycle = 2
  /\ pc = "franka_try"
  /\ time < now
  /\ now - time <= MaxLag
  /\ trigger_publish_.last_fired = now

\* C11: what init() returns.  init() returns false exactly when the
\* hardware has no Franka state interface, or arm_id is missing, or
\* joint_names is missing or does not hold 7 names, or getHandle() throws
\* for arm_id + "_robot"; in every other case it returns true, and a
\* missing publish_rate leaves the rate gate at 30 Hz.
C11_InitResult ==
  init_result # "none" =>
    /\ init_result \in {"true", "false"}
    /\ init_result = "false" <=>
         \/ ~config.has_interface
         \/ ~config.arm_id.found
         \/ ~config.joint_names.found
         \/ Size(config.joint_names.value) # 7
         \/ (config.arm_id.value \o "_robot") \notin RegisteredHandles
    /\ (init_result = "true" /\ ~config.publish_rate.found) =>
         /\ ~trigger_publish_.infinite
         /\ trigger_publish_.period = TicksPerSec \div DefaultPublishRate

\* C11, its case: the interface and both parameters were found, with 7
\* joint names, and init() returned false because getHandle() threw
C11_HandleThrew ==
  /\ init_result = "false"
  /\ config.has_interface
  /\ config.arm_id.found
  /\ config.joint_names.found
  /\ Size(config.joint_names.value) = 7
  /\ (config.arm_id.value \o "_robot") \notin RegisteredHandles

\* C12, as claimed: a failed init() leaves nothing behind.  When init()
\* has returned false no publisher has a topic, every msg_ is as the
\* constructor left it, and the state interface, the arm id, the rate
\* gate, the joint names and the state handle are as they were before the
\* call.
C12_FailedInitLeavesNothing ==
  init_result = "false" =>
    /\ topic = [c \in Channels |-> ""]
    /\ msg = DefaultMsgs
    /\ franka_state_interface_ = "nullptr"
    /\ arm_id_ = ""
    /\ trigger_publish_ = TriggerRate(DefaultPublishRate)
    /\ joint_names_ = Fill(0, "")
    /\ franka_state_handle_ = "nullptr"

\* C13, as claimed: a publish_rate that is not positive is rejected.  When
\* init() was called with a publish_rate of zero or less it has returned
\* false, the rate gate is as the constructor left it and no publish
\* cycle ever starts.
C13_NonPositiveRateRejected ==
  (init_result # "none" /\ config.publish_rate.found
     /\ config.publish_rate.value <= 0) =>
    /\ init_result = "false"
    /\ trigger_publish_ = TriggerRate(DefaultPublishRate)
    /\ cycle = 0

\* C14: convertArrayToTf reads its argument as a column-major 4x4
\* homogeneous matrix.  The rotation entry in row i, column j is the
\* argument's entry 4*j + i, the translation is its entries 12, 13, 14,
\* and changing entry 3, 7, 11 or 15 does not change the result; the
\* identity matrix gives the identity rotation and no translation, and the
\* translation entries 1, 2, 3 give the translation (1, 2, 3).
C14_ColumnMajor ==
  tf_result # NoPose =>
    /\ \A i \in 0..2 : \A j \in 0..2 :
         tf_result.rotation[i + 1][j + 1] = tf_array[4 * j + i]
    /\ tf_result.translation = << tf_array[12], tf_array[13], tf_array[14] >>
    /\ \A k \in {3, 7, 11, 15} :
         convertArrayToTf([tf_array EXCEPT ![k] = @ + 1]) = tf_result
    /\ tf_array = IdentityArray =>
         /\ tf_result.rotation = IdentityRotation
         /\ tf_result.translation = <<0, 0, 0>>
    /\ tf_array = TranslationArray => tf_result.translation = <<1, 2, 3>>

\* C14, its case: convertArrayToTf has returned for the identity matrix
\* with the translation (1, 2, 3)
C14_TranslationConverted ==
  /\ tf_array = TranslationArray
  /\ tf_result # NoPose

\* C15, as claimed: column j of the rotation is read from the argument's
\* entries j, j + 4 and j + 8.
C15_ColumnsFromStride4 ==
  tf_result # NoPose =>
    \A j \in 0..2 :
      << tf_result.rotation[1][j + 1], tf_result.rotation[2][j + 1],
         tf_result.rotation[3][j + 1] >>
        = << tf_array[j], tf_array[j + 4], tf_array[j + 8] >>

\* C15, amended: it is row i of the rotation that is read from the
\* argument's entries i, i + 4 and i + 8; column j is read from the
\* entries 4*j, 4*j + 1 and 4*j + 2.
C15_RowsFromStride4 ==
  tf_result # NoPose =>
    /\ \A i \in 0..2 :
         tf_result.rotation[i + 1]
           = << tf_array[i], tf_array[i + 4], tf_array[i + 8] >>
    /\ \A j \in 0..2 :
         << tf_result.rotation[1][j + 1], tf_result.rotation[2][j + 1],
            tf_result.rotation[3][j + 1] >>
           = << tf_array[4 * j], tf_array[4 * j + 1], tf_array[4 * j + 2] >>

\* C15, its case: convertArrayToTf has returned for an array whose entries
\* all differ, so that the rows of the rotation differ from its columns
C15_DistinctConverted ==
  /\ tf_array = DistinctArray
  /\ tf_result # NoPose
  /\ tf_result.rotation[1][2] # tf_result.rotation[2][1]

\* C16: the wrench message.  The message F_ext hands off in a cycle has
\* the frame arm_id + "_K", the cycle's time as its stamp, and as force and
\* torque the entries 0, 1, 2 and 3, 4, 5 of K_F_ext_hat_K of the robot
\* state captured in the cycle, which are not those of O_F_ext_hat_K; and
\* the message stays as it is until the publishing thread has taken it.
C16_WrenchMessage ==
  [][/\ wrote'["F_ext"].second # wrote["F_ext"].second =>
          /\ msg'["F_ext"] =
               [ frame_id |-> config.arm_id.value \o "_K",
                 stamp |-> pub_time,
                 force |-> << captured.K_F_ext_hat_K[0],
                              captured.K_F_ext_hat_K[1],
                              captured.K_F_ext_hat_K[2] >>,
                 torque |-> << captured.K_F_ext_hat_K[3],
                               captured.K_F_ext_hat_K[4],
                               captured.K_F_ext_hat_K[5] >> ]
          /\ msg'["F_ext"].force # << captured.O_F_ext_hat_K[0],
                                      captured.O_F_ext_hat_K[1],
                                      captured.O_F_ext_hat_K[2] >>
          /\ msg'["F_ext"].torque # << captured.O_F_ext_hat_K[3],
                                       captured.O_F_ext_hat_K[4],
                                       captured.O_F_ext_hat_K[5] >>
     /\ Pending("F_ext") => msg'["F_ext"] = msg["F_ext"]]_vars

\* C16, its case: F_ext has handed off its message of the second cycle,
\* whose robot state is not that of the first cycle
C16_SecondWrenchPublished ==
  /\ pc = "joint_try"
  /\ cycle = 2
  /\ Published("F_ext")
  /\ snapshots[1] # snapshots[2]

\* C17: a call of update() in which the rate gate returns false does
\* nothing.  It does not read the state handle and leaves robot_state_,
\* the rate gate, every msg_, mutex and turn, and sequence_number_
\* unchanged, and update() has returned.
C17_NonPublishTickInert ==
  [][((\E t \in 0..MaxClock : update(t))
        /\ ~TriggerDue(trigger_publish_, now)) =>
       /\ UNCHANGED << robot_state_, trigger_publish_, msg, mutex, turn,
                       sequence_number_ >>
       /\ UNCHANGED << captured, snapshots, cycle, wrote >>
       /\ pc' = "idle"]_vars

\* C17, its case: after a publish cycle update() was called with a later
\* time and did not publish, while the hardware has left the state that
\* was captured and a message is pending
C17_LaterCallDidNotPublish ==
  /\ pc = "idle"
  /\ cycle = 1
  /\ time > pub_time
  /\ hw_state # robot_state_
  /\ \E c \in Channels : Pending(c)

\* message m of publisher c holds the data of robot state s
MessageFrom(c, m, s) ==
  CASE c = "franka_states" ->
         /\ \A f \in FrankaDataFields : m[f] = s[f]
         /\ m.current_errors = errorsToMessage(s.current_errors)
         /\ m.last_motion_errors = errorsToMessage(s.last_motion_errors)
    [] c = "joint_states" ->
         m.position = s.q /\ m.velocity = s.dq /\ m.effort = s.tau_J
    [] c = "tf" ->
         /\ m.transforms[0].rotation = convertArrayToTf(s.F_T_EE).rotation
         /\ m.transforms[0].translation =
              convertArrayToTf(s.F_T_EE).translation
         /\ m.transforms[1].rotation = convertArrayToTf(s.EE_T_K).rotation
         /\ m.transforms[1].translation =
              convertArrayToTf(s.EE_T_K).translation
    [] c = "F_ext" ->
         /\ m.force = << s.K_F_ext_hat_K[0], s.K_F_ext_hat_K[1],
                         s.K_F_ext_hat_K[2] >>
         /\ m.torque = << s.K_F_ext_hat_K[3], s.K_F_ext_hat_K[4],
                          s.K_F_ext_hat_K[5] >>

\* C18: no backlog and no replay.  A publisher hands a message off only
\* when its previous message has been taken, so at most one is pending;
\* the message it hands off was written in this cycle from the robot state
\* captured in this cycle; and it does not hold the robot state of any
\* cycle since its last publish, which are the cycles that skipped it.
C18_NoBacklogNoReplay ==
  [][\A c \in Channels :
       wrote'[c].second # wrote[c].second =>
         /\ ~Pending(c)
         /\ turn'[c] = "NON_REALTIME"
         /\ wrote'[c] = [first |-> cycle, second |-> cycle]
         /\ MessageFrom(c, msg'[c], snapshots[cycle])
         /\ \A n \in (wrote[c].second + 1)..(cycle - 1) :
              snapshots[n] # snapshots[cycle] =>
                ~MessageFrom(c, msg'[c], snapshots[n])]_vars

\* C18, its case: joint_states was skipped in the first cycle and is about
\* to hand off its message of the second cycle, whose robot state is not
\* that of the first
C18_PublishAfterSkip ==
  /\ pc = "joint_stamp"
  /\ cycle = 2
  /\ wrote["joint_states"].second = 0
  /\ snapshots[1] # snapshots[2]

\* C20: sequence_number_ counts the publish cycles, not the messages.
\* Whenever update() has returned, sequence_number_ is its value at
\* construction plus the number of calls in which the rate gate fired,
\* whatever the publishers did; and when franka_states hands off a message
\* after an earlier one, header.seq has grown by one plus the number of
\* publish cycles in between, in all of which franka_states was skipped.
C20_CounterCountsCycles ==
  /\ [](pc = "idle" => sequence_number_ = seq0 + cycle)
  /\ [][(/\ wrote'["franka_states"].second # wrote["franka_states"].second
         /\ wrote["franka_states"].second > 0)
        => msg'["franka_states"].seq - msg["franka_states"].seq
             = 1 + (cycle - wrote["franka_states"].second - 1)]_vars

\* C20, its case: franka_states published in the first cycle, was skipped
\* in the second and is about to hand off its message of the third
C20_PublishSkipPublish ==
  /\ pc = "franka_stamp"
  /\ cycle = 3
  /\ wrote["franka_states"].second = 1
  /\ msg["franka_states"].seq = seq0

====
